---- MODULE Spec2Model ----
(***************************************************************************)
(* Loan lifecycle and notification subsystem of the library tracking       *)
(* system: src/library/views.py (loan, return_book, extend_due_date) and   *)
(* src/library/tasks.py (send_loan_notification, check_overdue_loans), with *)
(* the beat schedule of src/library_system/celery.py.                      *)
(*                                                                         *)
(* One book, a fixed set of members, a growing table of loans.  No view    *)
(* opens a transaction, so every ORM statement commits on its own          *)
(* (autocommit) and the statements of concurrent requests interleave; a    *)
(* request is therefore a sequence of steps, one per statement that reads  *)
(* or writes the database.                                                 *)
(***************************************************************************)
EXTENDS Integers, Sequences, FiniteSets, TLC

\* ------------------------------------------------------------------ bounds
TotalCopies == 1      \* copies of the book; available_copies starts here
NumWorkers == 2       \* concurrent request handlers
NumMembers == 2       \* members 1..NumMembers exist; NumMembers+1 does not
MaxLoans == 2         \* Loan rows ever created
MaxTicks == 1         \* clock advances
MaxExtends == 2       \* extend_due_date requests that reach the save
MaxTasks == 2         \* notification tasks ever published
MaxScans == 2         \* runs of check_overdue_loans
MaxBeats == 1         \* firings of the beat schedule
TicksPerDay == 2      \* clock resolution: a datetime has a time of day

\* ------------------------------------------------------- program constants
LoanDays == 14        \* views.py:88  timedelta(days=14)

Workers == 1..NumWorkers
Members == 1..NumMembers
MemberIds == 1..(NumMembers + 1)
LoanIds == 1..MaxLoans
NoDate == -1          \* NULL return_date
\* the clock moves to the afternoon of the day the first loans are due, or
\* to the midnight after it
TickSteps == {TicksPerDay * LoanDays + 1, TicksPerDay * (LoanDays + 1)}

\* Loan.due_date is declared in library/models.py.  The views store dates in
\* it (views.py:87-88) and compare it with a datetime (views.py:198); the
\* scanner compares it with a date and subtracts it from one (tasks.py:39-41,
\* 69).  Either column type is a build the code can be run in.
DueDateTypes == {"date", "datetime"}

VARIABLES
    due_date_type,     \* "date" | "datetime": the column type of Loan.due_date
    available_copies,  \* Book.available_copies of the one book
    loans,             \* the Loan table: loans[id], ids are 1..Len(loans)
    now,               \* the clock, in ticks
    ticks,             \* clock advances so far
    extends,           \* extend_due_date saves started so far
    pc,                \* pc[w]: the statement worker w is about to run
    req,               \* req[w]: the local variables of w's request
    response,          \* the response the server sent last
    tasks,             \* the calls of send_loan_notification handed to Celery
    scan               \* check_overdue_loans: its locals, its runs, the beat

vars == <<due_date_type, available_copies, loans, now, ticks, extends, pc, req, response,
         tasks, scan>>

\* timezone.now().date()
Today == now \div TicksPerDay

NoLoan == [member |-> 0, loan_date |-> NoDate, due_date |-> NoDate,
           is_returned |-> FALSE, return_date |-> NoDate]
NoReq == [member |-> 0, loan |-> 0, snap |-> NoLoan, additional_days |-> 0]

\* the scanner at rest, before its first run.  pc, today, total, sent and
\* rows are the position and locals of the run in progress; sel, log and
\* mails record what that run selected and did per loan, closed the loans
\* that were returned when it began; result is what the last completed run
\* returned, runs the number of completed runs, beats the number of firings
\* of the beat schedule.
NoResult == [total_overdue_loans |-> -1, notifications_sent |-> -1]
NoScan ==
    [pc |-> "idle", today |-> 0, total |-> 0, sent |-> 0, rows |-> <<>>,
     sel |-> {}, log |-> [i \in LoanIds |-> "none"], mails |-> [i \in LoanIds |-> 0],
     closed |-> {},
     result |-> NoResult, runs |-> 0, beats |-> 0]

OpenLoans == {i \in 1..Len(loans) : ~loans[i].is_returned}

\* request slots a loan request may still fill with a new row
LoansInFlight == Cardinality({w \in Workers : pc[w] = "loan_create"})

Init ==
    /\ due_date_type \in DueDateTypes
    /\ available_copies = TotalCopies
    /\ loans = <<>>
    /\ now = 0
    /\ ticks = 0
    /\ extends = 0
    /\ pc = [w \in Workers |-> "idle"]
    /\ req = [w \in Workers |-> NoReq]
    /\ response = "none"
    /\ tasks = <<>>
    /\ scan = NoScan

\* the request of worker w ends with response r
Respond(w, r) ==
    /\ pc' = [pc EXCEPT ![w] = "idle"]
    /\ req' = [req EXCEPT ![w] = NoReq]
    /\ response' = r

\* worker w goes on to statement p with locals l
Goto(w, p, l) ==
    /\ pc' = [pc EXCEPT ![w] = p]
    /\ req' = [req EXCEPT ![w] = l]
    /\ response' = response

\* ---------------------------------------------------------------- loan
\* views.py:66-82: read the book, test the copy it read, look the member up.
LoanReadTakesCopyFirst(w, member_id) ==
    /\ pc[w] = "idle"
    /\ IF available_copies < 1
         THEN Respond(w, "400_no_copies") /\ available_copies' = available_copies
         ELSE IF member_id \notin Members
                THEN Respond(w, "400_no_member") /\ available_copies' = available_copies - 1
                ELSE /\ Len(loans) + LoansInFlight < MaxLoans
                     /\ Goto(w, "loan_create", [NoReq EXCEPT !.member = member_id])
                     /\ available_copies' = available_copies
    /\ UNCHANGED <<due_date_type, scan, loans, now, ticks, extends, tasks>>

LoanRead(w, member_id) ==
    /\ pc[w] = "idle"
    /\ IF available_copies < 1
         THEN Respond(w, "400_no_copies")
         ELSE IF member_id \notin Members
                THEN Respond(w, "400_no_member")
                ELSE /\ Len(loans) + LoansInFlight < MaxLoans
                     /\ Goto(w, "loan_create", [NoReq EXCEPT !.member = member_id])
    /\ UNCHANGED <<due_date_type, scan, available_copies, loans, now, ticks, extends, tasks>>

\* views.py:84-89: Loan.objects.create(...)
NewLoan(member) ==
    [member |-> member, loan_date |-> Today, due_date |-> Today + LoanDays,
     is_returned |-> FALSE, return_date |-> NoDate]

LoanCreate(w) ==
    /\ pc[w] = "loan_create"
    /\ loans' = Append(loans, NewLoan(req[w].member))
    /\ Goto(w, "loan_decr", [req[w] EXCEPT !.loan = Len(loans) + 1])
    /\ UNCHANGED <<due_date_type, scan, available_copies, now, ticks, extends, tasks>>

\* views.py:91: UPDATE ... SET available_copies = available_copies - 1
Decrement(n) == n - 1

LoanDecrement(w) ==
    /\ pc[w] = "loan_decr"
    /\ available_copies' = Decrement(available_copies)
    /\ Goto(w, "loan_notify", req[w])
    /\ UNCHANGED <<due_date_type, scan, loans, now, ticks, extends, tasks>>

\* ------------------------------------------------- send_loan_notification
\* tasks.py:13-19.  The task is declared with bind=True, so Celery makes the
\* function a method of the task class and hands the task instance to it as
\* its first positional argument; the function declares loan_id alone.
TaskBind == TRUE          \* tasks.py:14  bind=True
TaskParams == 1           \* tasks.py:19  def send_loan_notification(loan_id)
MaxRetries == 3           \* tasks.py:15  max_retries=3

\* Python's arity rule for a call of the task function with nargs arguments
\* from the caller: FALSE is a TypeError.  Celery applies it twice: when the
\* call is published (apply_async checks the arguments against the function's
\* signature, bound as the worker will bind it) and when the worker runs it.
ArgsFit(nargs) == (IF TaskBind THEN 1 ELSE 0) + nargs = TaskParams

NewTask(loan_id) ==
    [loan_id |-> loan_id, retries |-> 0, state |-> "queued", runs |-> 0,
     sends |-> 0, delivered |-> 0]

\* views.py:93-98: send_loan_notification.delay(loan.id), then 201 Created.
\* A TypeError raised by delay is handled nowhere in the view: the request
\* ends 500 with the Loan row and the decrement already committed.
LoanNotify(w) ==
    /\ pc[w] = "loan_notify"
    /\ IF ArgsFit(1)
         THEN /\ tasks' = Append(tasks, NewTask(req[w].loan))
              /\ Respond(w, "201_created")
         ELSE /\ tasks' = tasks
              /\ Respond(w, "500_notify")
    /\ UNCHANGED <<due_date_type, scan, available_copies, loans, now, ticks, extends>>

\* A message naming the task reaches a worker from the broker: the task is
\* registered by name (shared_task), whoever published the message.
Publish(loan_id) ==
    /\ Len(tasks) < MaxTasks
    /\ tasks' = Append(tasks, NewTask(loan_id))
    /\ UNCHANGED <<due_date_type, scan, available_copies, loans, now, ticks, extends,
                   pc, req, response>>

\* autoretry_for=(Exception,), max_retries=3: an exception of the run is
\* answered by task.retry().  With retries left, retry() publishes the call
\* again through apply_async, under the argument check delay is under; a
\* publication that raises makes the worker reject the message.  With the
\* retries used up, retry() lets the exception out and the task has failed.
AutoRetry(t) ==
    IF t.retries < MaxRetries
      THEN IF ArgsFit(1)
             THEN [t EXCEPT !.retries = @ + 1]
             ELSE [t EXCEPT !.state = "rejected"]
      ELSE [t EXCEPT !.state = "failed"]

\* tasks.py:19-33, one execution of the task by a worker; mail_ok is the
\* answer of the mail collaborator should send_mail be reached.
RunBody(t, mail_ok) ==
    IF t.loan_id \notin 1..Len(loans)
      THEN [t EXCEPT !.state = "done"]                       \* Loan.DoesNotExist: pass
      ELSE IF mail_ok
             THEN [t EXCEPT !.sends = @ + 1, !.delivered = @ + 1, !.state = "done"]
             ELSE AutoRetry([t EXCEPT !.sends = @ + 1])

RunTask(i, mail_ok) ==
    /\ i \in 1..Len(tasks)
    /\ tasks[i].state = "queued"
    /\ LET t == [tasks[i] EXCEPT !.runs = @ + 1]
       IN  tasks' = [tasks EXCEPT ![i] =
                       IF ArgsFit(1) THEN RunBody(t, mail_ok) ELSE AutoRetry(t)]
    /\ UNCHANGED <<due_date_type, scan, available_copies, loans, now, ticks, extends,
                   pc, req, response>>

\* -------------------------------------------------------------- return_book
\* views.py:109-122: get the book, then Loan.objects.get(book, member, open).
ReturnRead(w, member_id) ==
    /\ pc[w] = "idle"
    /\ LET found == {i \in OpenLoans : loans[i].member = member_id}
       IN  IF found = {}
             THEN Respond(w, "400_no_active_loan")
             ELSE IF Cardinality(found) > 1
                    THEN Respond(w, "500_multiple")          \* MultipleObjectsReturned
                    ELSE Goto(w, "return_update",
                              [NoReq EXCEPT !.member = member_id,
                                            !.loan = CHOOSE i \in found : TRUE])
    /\ UNCHANGED <<due_date_type, scan, available_copies, loans, now, ticks, extends, tasks>>

\* views.py:124-127: UPDATE loan SET is_returned, return_date WHERE pk
MarkReturnedNoDate(l) == [l EXCEPT !.is_returned = TRUE]

MarkReturned(l) == [l EXCEPT !.is_returned = TRUE, !.return_date = Today]

ReturnUpdate(w) ==
    /\ pc[w] = "return_update"
    /\ loans' = [loans EXCEPT ![req[w].loan] = MarkReturned(@)]
    /\ Goto(w, "return_incr", req[w])
    /\ UNCHANGED <<due_date_type, scan, available_copies, now, ticks, extends, tasks>>

\* views.py:129: UPDATE ... SET available_copies = available_copies + 1
Increment(n) == n + 1

ReturnIncrement(w) ==
    /\ pc[w] = "return_incr"
    /\ available_copies' = Increment(available_copies)
    /\ Respond(w, "200_returned")
    /\ UNCHANGED <<due_date_type, scan, loans, now, ticks, extends, tasks>>

\* ---------------------------------------------------------- extend_due_date
\* request.data.get('additional_days'): what a JSON or form body can carry.
\* "int" v is the integer v, "float" v the number v/10, "digits" v the string
\* of the decimal digits of v, "text" a string that is no number literal,
\* "none" an absent key.
AdditionalDaysInputs ==
    {[t |-> "int", v |-> 0], [t |-> "int", v |-> 1], [t |-> "int", v |-> 2],
     [t |-> "float", v |-> 15], [t |-> "float", v |-> 5], [t |-> "digits", v |-> 1],
     [t |-> "text", v |-> 0], [t |-> "none", v |-> 0]}

\* views.py:208: int(additional_days).  ok = FALSE is ValueError or TypeError;
\* int() of a float truncates toward zero.
PyInt(x) ==
    CASE x.t = "int"    -> [ok |-> TRUE, v |-> x.v]
      [] x.t = "digits" -> [ok |-> TRUE, v |-> x.v]
      [] x.t = "float"  -> [ok |-> TRUE,
                            v |-> IF x.v >= 0 THEN x.v \div 10 ELSE -((-x.v) \div 10)]
      [] OTHER          -> [ok |-> FALSE, v |-> 0]

\* views.py:198: loan.due_date < timezone.now().  timezone.now() is a
\* datetime.  A DateField loads as a date, and Python refuses to order a date
\* and a datetime (TypeError); a DateTimeField loads the stored day as its
\* midnight.
DueBeforeNow(due) ==
    IF due_date_type = "date"
      THEN "TypeError"
      ELSE IF due * TicksPerDay < now THEN "yes" ELSE "no"

\* views.py:188-218: load the loan, then the three checks in their order.
ExtendOutcome(snap, input) ==
    IF snap.is_returned THEN "400_returned"
    ELSE IF DueBeforeNow(snap.due_date) = "TypeError" THEN "500_compare"
    ELSE IF DueBeforeNow(snap.due_date) = "yes" THEN "400_overdue"
    ELSE IF ~PyInt(input).ok THEN "400_invalid"
    ELSE IF PyInt(input).v < 1 THEN "400_not_positive"
    ELSE "save"

ExtendRead(w, id, input) ==
    /\ pc[w] = "idle"
    /\ IF id \notin 1..Len(loans)
         THEN /\ Respond(w, "404_no_loan")
              /\ extends' = extends
         ELSE IF ExtendOutcome(loans[id], input) = "save"
                THEN /\ extends < MaxExtends
                     /\ extends' = extends + 1
                     /\ Goto(w, "extend_save",
                             [NoReq EXCEPT !.loan = id, !.snap = loans[id],
                                           !.additional_days = PyInt(input).v])
                ELSE /\ Respond(w, ExtendOutcome(loans[id], input))
                     /\ extends' = extends
    /\ UNCHANGED <<due_date_type, scan, available_copies, loans, now, ticks, tasks>>

\* views.py:221: loan.due_date + timedelta(days=additional_days), on the
\* instance loaded at line 188
Extended(snap, additional_days) == [snap EXCEPT !.due_date = @ + additional_days]

\* views.py:222: loan.save() writes every column of the instance to the row
ExtendSave(w) ==
    /\ pc[w] = "extend_save"
    /\ loans' = [loans EXCEPT ![req[w].loan] = Extended(req[w].snap, req[w].additional_days)]
    /\ Respond(w, "200_extended")
    /\ UNCHANGED <<due_date_type, scan, available_copies, now, ticks, extends, tasks>>

\* ---------------------------------------------------------------- clock
Tick ==
    /\ ticks < MaxTicks
    /\ \E d \in TickSteps : now' = now + d
    /\ ticks' = ticks + 1
    /\ UNCHANGED <<due_date_type, scan, available_copies, loans, extends, pc, req, response, tasks>>

\* ------------------------------------------------------ check_overdue_loans
\* User.email of the member's user; it may be blank.  The last member has
\* none (tasks.py:54-59 reads and tests it).
HasEmail(m) == m # NumMembers

\* tasks.py:40-43: filter(due_date__lt=now, is_returned=False), now a date.
\* Against a DateTimeField Django compares with the midnight of that date,
\* which orders the stored days as the dates themselves.
OverdueOrDueToday(l, today) == l.due_date <= today /\ ~l.is_returned

Overdue(l, today) == l.due_date < today /\ ~l.is_returned

OverdueIds(today) == {i \in 1..Len(loans) : Overdue(loans[i], today)}

\* the rows of a query, in primary-key order
RECURSIVE Rows(_)
Rows(S) ==
    IF S = {} THEN <<>>
    ELSE LET i == CHOOSE x \in S : \A y \in S : x <= y
         IN  <<i>> \o Rows(S \ {i})

\* tasks.py:36-39: a run begins; now = timezone.now().date()
Begin(s) ==
    [s EXCEPT !.pc = "count", !.today = Today,
              !.closed = {i \in 1..Len(loans) : loans[i].is_returned}]

ScanStart ==
    /\ scan.pc = "idle"
    /\ scan.runs < MaxScans
    /\ scan' = Begin(scan)
    /\ UNCHANGED <<due_date_type, available_copies, loans, now, ticks, extends,
                   pc, req, response, tasks>>

\* tasks.py:45-46: overdue_loans.count() is a query of its own
ScanCount ==
    /\ scan.pc = "count"
    /\ scan' = [scan EXCEPT !.pc = "select",
                            !.total = Cardinality(OverdueIds(scan.today)),
                            !.sent = 0]
    /\ UNCHANGED <<due_date_type, available_copies, loans, now, ticks, extends,
                   pc, req, response, tasks>>

\* tasks.py:48: the for statement evaluates the queryset: a second query
ScanSelect ==
    /\ scan.pc = "select"
    /\ scan' = [scan EXCEPT !.pc = "loop",
                            !.rows = Rows(OverdueIds(scan.today)),
                            !.sel = OverdueIds(scan.today)]
    /\ UNCHANGED <<due_date_type, available_copies, loans, now, ticks, extends,
                   pc, req, response, tasks>>

\* tasks.py:62-74: the message is rendered, then send_mail is called.  The
\* rendering computes (now - loan.due_date).days with now a date: Python
\* subtracts no datetime from a date (TypeError), so with a DateTimeField
\* send_mail is never reached.  mail_ok is the answer of the mail
\* collaborator.
SendOverdue(mail_ok) ==
    IF due_date_type = "datetime" THEN "failed"
    ELSE IF mail_ok THEN "sent" ELSE "failed"

\* tasks.py:50-59: a loan without a usable address is logged and skipped
Skipped(s, i) == [s EXCEPT !.rows = Tail(@), !.log[i] = "skipped"]

\* tasks.py:62-75: send_mail returns, notifications_sent += 1
SentTwice(s, i) ==
    [s EXCEPT !.rows = Tail(@), !.log[i] = "sent", !.sent = @ + 1, !.mails[i] = @ + 2]

Sent(s, i) ==
    [s EXCEPT !.rows = Tail(@), !.log[i] = "sent", !.sent = @ + 1, !.mails[i] = @ + 1]

\* tasks.py:77-78: except Exception: logger.error, and the loop goes on
SendFailedCounted(s, i) ==
    [s EXCEPT !.rows = Tail(@), !.log[i] = "failed", !.sent = @ + 1]

SendFailedAborts(s, i) == [NoScan EXCEPT !.runs = s.runs + 1, !.beats = s.beats]

SendFailed(s, i) == [s EXCEPT !.rows = Tail(@), !.log[i] = "failed"]

\* tasks.py:48-78: one iteration of the loop
ScanLoan(mail_ok) ==
    /\ scan.pc = "loop"
    /\ scan.rows # <<>>
    /\ LET i == Head(scan.rows)
       IN  scan' = IF ~HasEmail(loans[i].member) THEN Skipped(scan, i)
                   ELSE IF SendOverdue(mail_ok) = "sent" THEN Sent(scan, i)
                   ELSE SendFailed(scan, i)
    /\ UNCHANGED <<due_date_type, available_copies, loans, now, ticks, extends,
                   pc, req, response, tasks>>

\* tasks.py:81-86: the run returns its two counters
ScanResult(s) == [total_overdue_loans |-> s.total, notifications_sent |-> s.sent]

ScanFinish ==
    /\ scan.pc = "loop"
    /\ scan.rows = <<>>
    /\ scan' = [NoScan EXCEPT !.result = ScanResult(scan), !.runs = scan.runs + 1,
                              !.beats = scan.beats]
    /\ UNCHANGED <<due_date_type, available_copies, loans, now, ticks, extends,
                   pc, req, response, tasks>>

\* ---------------------------------------------------------------- beat
\* celery.py:11-16: the one entry of the beat schedule, and the task it names
BeatTask == "library.tasks.send_overdue_notification"

\* the tasks library/tasks.py registers (shared_task names a task after its
\* module and function)
RegisteredTasks ==
    {"library.tasks.send_loan_notification", "library.tasks.check_overdue_loans"}

\* the schedule fires: beat publishes a message naming BeatTask, and the
\* worker that receives it runs the task registered under that name, or
\* discards the message if there is none
BeatFire ==
    /\ scan.beats < MaxBeats
    /\ scan' = IF BeatTask = "library.tasks.check_overdue_loans"
                    /\ BeatTask \in RegisteredTasks
                    /\ scan.pc = "idle" /\ scan.runs < MaxScans
                 THEN Begin([scan EXCEPT !.beats = @ + 1])
                 ELSE [scan EXCEPT !.beats = @ + 1]
    /\ UNCHANGED <<due_date_type, available_copies, loans, now, ticks, extends,
                   pc, req, response, tasks>>

\* the requests of the API
Lifecycle ==
    \/ \E w \in Workers, m \in MemberIds : LoanRead(w, m)
    \/ \E w \in Workers : LoanCreate(w)
    \/ \E w \in Workers : LoanDecrement(w)
    \/ \E w \in Workers : LoanNotify(w)
    \/ \E w \in Workers, m \in MemberIds : ReturnRead(w, m)
    \/ \E w \in Workers : ReturnUpdate(w)
    \/ \E w \in Workers : ReturnIncrement(w)
    \/ \E w \in Workers, id \in LoanIds, x \in AdditionalDaysInputs : ExtendRead(w, id, x)
    \/ \E w \in Workers : ExtendSave(w)

Next ==
    \/ Lifecycle
    \/ Tick

Spec == Init /\ [][Next]_vars

\* the Celery worker, with the loan requests that create the loans it looks up
DispatchNext ==
    \/ \E w \in Workers, m \in MemberIds : LoanRead(w, m)
    \/ \E w \in Workers : LoanCreate(w)
    \/ \E w \in Workers : LoanDecrement(w)
    \/ \E w \in Workers : LoanNotify(w)
    \/ \E id \in 1..(MaxLoans + 1) : Publish(id)
    \/ \E i \in 1..MaxTasks, ok \in BOOLEAN : RunTask(i, ok)

DispatchSpec == Init /\ [][DispatchNext]_vars

\* loan and return_book alone
LoanReturnNext ==
    \/ \E w \in Workers, m \in MemberIds : LoanRead(w, m)
    \/ \E w \in Workers : LoanCreate(w)
    \/ \E w \in Workers : LoanDecrement(w)
    \/ \E w \in Workers : LoanNotify(w)
    \/ \E w \in Workers, m \in MemberIds : ReturnRead(w, m)
    \/ \E w \in Workers : ReturnUpdate(w)
    \/ \E w \in Workers : ReturnIncrement(w)

LoanReturnSpec == Init /\ [][LoanReturnNext]_vars

\* the scanner and the beat, with the requests that change the loans it reads
ScanNext ==
    \/ LoanReturnNext
    \/ Tick
    \/ ScanStart
    \/ ScanCount
    \/ ScanSelect
    \/ \E ok \in BOOLEAN : ScanLoan(ok)
    \/ ScanFinish

ScanSpec == Init /\ [][ScanNext]_vars

\* the beat and the scanner, with the loan requests and the clock
BeatNext ==
    \/ \E w \in Workers, m \in MemberIds : LoanRead(w, m)
    \/ \E w \in Workers : LoanCreate(w)
    \/ \E w \in Workers : LoanDecrement(w)
    \/ \E w \in Workers : LoanNotify(w)
    \/ Tick
    \/ ScanStart
    \/ ScanCount
    \/ ScanSelect
    \/ \E ok \in BOOLEAN : ScanLoan(ok)
    \/ ScanFinish
    \/ BeatFire

BeatSpec == Init /\ [][BeatNext]_vars

\* ------------------------------------------------------------------ claims
AllIdle == \A w \in Workers : pc[w] = "idle"
ReturnedLoans == {i \in 1..Len(loans) : loans[i].is_returned}
\* Loan rows whose decrement has been applied
Decremented == Len(loans) - Cardinality({w \in Workers : pc[w] = "loan_decr"})

\* C1 (inventory conservation): once every loan and return_book request has
\* completed, available_copies = total copies - number of open loans.
C1_Conservation ==
    AllIdle => available_copies = TotalCopies - Cardinality(OpenLoans)

\* C2 (no oversubscription): the loans that are out never outnumber the
\* copies: of the requests racing for the last copy one creates a loan.
C2_NoOversubscription == Cardinality(OpenLoans) <= TotalCopies

\* C3 (counter range): 0 <= available_copies <= total copies in every state.
C3_CounterInRange == 0 <= available_copies /\ available_copies <= TotalCopies

\* C4 (return is atomic): no state shows a loan marked returned whose
\* increment of available_copies is missing: the counter is never below what
\* the decrements and returns applied so far account for.  (A crash of the
\* request leaves the state it was in: the behaviour stutters there.)
C4_ReturnAtomic ==
    available_copies >= TotalCopies - Decremented + Cardinality(ReturnedLoans)

\* C5 (state machine validity): for every loan, in every state, is_returned
\* holds exactly if return_date is set.
C5_ReturnedIffDated ==
    \A i \in 1..Len(loans) : loans[i].is_returned <=> loans[i].return_date # NoDate

\* a loan that was extended and then returned
C5_Witness ==
    \E i \in 1..Len(loans) :
        /\ loans[i].is_returned
        /\ loans[i].return_date # NoDate
        /\ loans[i].due_date > loans[i].loan_date + LoanDays

\* the build whose Loan.due_date is a DateTimeField: the one in which
\* extend_due_date gets past its comparison
DatetimeInit == Init /\ due_date_type = "datetime"

DatetimeSpec == DatetimeInit /\ [][Next]_vars

\* C6 (extend monotonicity): no step lowers the stored due_date of a loan,
\* and the save of a successful extend_due_date leaves the stored due_date
\* at its previous stored value plus additional_days.
C6_ExtendMonotone ==
    [][/\ \A i \in 1..Len(loans) : loans'[i].due_date >= loans[i].due_date
       /\ \A w \in Workers :
            ExtendSave(w) =>
              loans'[req[w].loan].due_date = loans[req[w].loan].due_date + req[w].additional_days]_vars

\* what the claim calls an integer: a JSON integer, or its decimal digits
IsInteger(x) == x.t \in {"int", "digits"}

\* C7 (extend validation): extend_due_date of a returned loan answers
\* AlreadyReturned, of an open loan past its due date AlreadyOverdue, with
\* additional_days below 1 or no integer InvalidInput, each leaving the loan
\* as it was; an open loan not yet overdue with an integer >= 1 is extended.
C7_ExtendValidation ==
    [][\A w \in Workers, id \in LoanIds, x \in AdditionalDaysInputs :
         (ExtendRead(w, id, x) /\ id \in 1..Len(loans)) =>
           LET l == loans[id]
               overdue == l.due_date * TicksPerDay < now
               valid == IsInteger(x) /\ x.v >= 1
           IN  /\ l.is_returned => response' = "400_returned" /\ pc'[w] = "idle"
               /\ (~l.is_returned /\ overdue) =>
                     response' = "400_overdue" /\ pc'[w] = "idle"
               /\ ~valid => pc'[w] = "idle"
               /\ (~l.is_returned /\ ~overdue /\ ~valid) =>
                     response' \in {"400_invalid", "400_not_positive"}
               /\ (~l.is_returned /\ ~overdue /\ valid) =>
                     pc'[w] = "extend_save" /\ req'[w].additional_days = x.v
               /\ loans' = loans]_vars

\* C8 (retry bound): a loan_created task for an existing loan that is
\* dropped undelivered has made exactly 1 + 3 send attempts, no task makes
\* more, and a task delivers at most once and stops when it has.
C8_RetryBound ==
    \A i \in 1..Len(tasks) :
        /\ (tasks[i].state \in {"failed", "rejected"} /\ tasks[i].loan_id \in 1..Len(loans))
              => tasks[i].sends = MaxRetries + 1
        /\ tasks[i].sends <= MaxRetries + 1
        /\ tasks[i].delivered <= 1
        /\ tasks[i].delivered = 1 => tasks[i].state = "done"

\* C9 (missing loan): a run of the task whose loan does not exist ends the
\* task without a send attempt, without scheduling a retry, without an error.
C9_MissingLoanDiscarded ==
    [][\A i \in 1..Len(tasks), ok \in BOOLEAN :
         (RunTask(i, ok) /\ tasks[i].loan_id \notin 1..Len(loans)) =>
           /\ tasks'[i].state = "done"
           /\ tasks'[i].sends = tasks[i].sends
           /\ tasks'[i].retries = tasks[i].retries]_vars

\* C10 (fire and forget): the hand-off that ends a loan request whose Loan
\* and decrement are committed enqueues one loan_created task and answers
\* 201 Created, leaving the loans and the counter as they are, whatever the
\* state of the dispatcher.
C10_FireAndForget ==
    [][\A w \in Workers :
         LoanNotify(w) =>
           /\ response' = "201_created"
           /\ Len(tasks') = Len(tasks) + 1
           /\ loans' = loans
           /\ available_copies' = available_copies]_vars

\* C11 (scanner selection): the query of a scan run selects exactly the
\* loans that are open with due_date before the run's now, as the table
\* stands when the query runs: no returned loan and no loan not yet past its
\* due date is among them, and the run processes and mails selected loans
\* only.
C11_ScanSelection ==
    [][/\ (scan.pc = "select" /\ scan'.pc = "loop") =>
            /\ scan'.sel = {i \in 1..Len(loans) :
                              loans[i].due_date < scan.today /\ ~loans[i].is_returned}
            /\ {scan'.rows[k] : k \in 1..Len(scan'.rows)} = scan'.sel
       /\ \A i \in LoanIds :
            (scan'.log[i] # "none" \/ scan'.mails[i] > 0) => i \in scan'.sel]_vars

\* a run that has selected an overdue open loan and left out a returned
\* overdue loan beside it
C11_Witness ==
    /\ scan.pc = "loop"
    /\ \E i, j \in 1..Len(loans) :
         /\ i \in scan.sel /\ scan.log[i] = "sent"
         /\ j \notin scan.sel /\ loans[j].is_returned /\ loans[j].due_date < scan.today

\* C12 (partial-failure isolation): a run whose send for a loan fails, or
\* that skips a loan for its missing address, still processes every other
\* loan it selected and ends by returning its result.
C12_FailureIsolation ==
    [][scan'.runs = scan.runs + 1 =>
         /\ \A i \in scan.sel : scan.log[i] # "none"
         /\ scan'.result # NoResult
         /\ scan'.result.total_overdue_loans = scan.total
         /\ scan'.pc = "idle"]_vars

\* a run at the end of its loop whose first loan failed or was skipped and
\* whose second loan was mailed
C12_Witness ==
    /\ scan.pc = "loop" /\ scan.rows = <<>>
    /\ \E i, j \in scan.sel :
         i < j /\ scan.log[i] \in {"failed", "skipped"} /\ scan.log[j] = "sent"

\* C13 (schedule trigger): every firing of the beat schedule starts a run of
\* the scanner (when none is in progress).
C13_BeatRunsScanner ==
    [][(scan'.beats = scan.beats + 1 /\ scan.pc = "idle") => scan'.pc = "count"]_vars

C15_FailedLoanNoEffect ==
    [][\A w \in Workers, m \in MemberIds :
         LoanRead(w, m) =>
           /\ available_copies < 1 => (response' = "400_no_copies" /\ pc'[w] = "idle")
           /\ (available_copies >= 1 /\ m \notin Members) =>
                 (response' = "400_no_member" /\ pc'[w] = "idle")
           /\ pc'[w] = "idle" =>
                 /\ loans' = loans
                 /\ available_copies' = available_copies
                 /\ tasks' = tasks]_vars

\* a request naming an unknown member was refused after the one loan had
\* been returned, and left the loan and the counter as they were
C15_Witness ==
    /\ response = "400_no_member"
    /\ AllIdle
    /\ Len(loans) = 1 /\ loans[1].is_returned /\ available_copies = TotalCopies

\* C16 (one return per loan): of the return_book requests for one open loan
\* at most one gets past the look-up of the open loan, so one marks it
\* returned and increments the counter and the others answer "Active loan
\* does not exist".
C16_OneReturnWins ==
    \A v, w \in Workers :
        (/\ v # w
         /\ pc[v] \in {"return_update", "return_incr"}
         /\ pc[w] \in {"return_update", "return_incr"})
          => req[v].loan # req[w].loan

\* C17 (one loan_created request per loan): the hand-off that ends a loan
\* request enqueues exactly one task for the loan it created, and the tasks
\* of one loan deliver at most one message between them.
C17_OneRequestPerLoan ==
    [][/\ \A w \in Workers :
            (pc[w] = "loan_notify" /\ pc'[w] = "idle") =>
               tasks' = Append(tasks, NewTask(req[w].loan))
       /\ \A i, j \in 1..Len(tasks') :
            (i # j /\ tasks'[i].loan_id = tasks'[j].loan_id /\ tasks'[i].loan_id \in 1..Len(loans'))
               => tasks'[i].delivered + tasks'[j].delivered <= 1
       /\ \A i \in 1..Len(tasks') : tasks'[i].delivered <= 1]_vars

\* C18 (the scanner hands off): the step of a run that handles a selected
\* loan with an address enqueues a dispatcher task for it and sends no mail
\* itself.
C18_ScanHandsOff ==
    [][\A i \in LoanIds :
         (scan.log[i] = "none" /\ scan'.log[i] \in {"sent", "failed"}) =>
            /\ Len(tasks') = Len(tasks) + 1
            /\ scan'.mails = scan.mails]_vars

\* C19 (returned is absorbing): no step makes a returned loan open again or
\* clears its return_date.
C19_ReturnedAbsorbing ==
    [][\A i \in 1..Len(loans) :
         loans[i].is_returned =>
            (loans'[i].is_returned /\ loans'[i].return_date # NoDate)]_vars

====
